---------------------------- MODULE Spec2Model ----------------------------
(***************************************************************************)
(* A model of ezq (src/src/ezq/__init__.py): the reorder buffer `sortiter`, *)
(* the message channel with its sentinel-terminated iterator `iter_msg`,   *)
(* and the pool lifecycle `endq_and_wait` / `Q.stop`.                      *)
(*                                                                         *)
(* Spec      : one run of the generator `sortiter` over an arbitrary       *)
(*             finite input of keyed messages.                             *)
(* SpecPool  : a producer, a pool of workers iterating one shared input    *)
(*             channel, and the controller `stop`.                         *)
(* FairPool  : SpecPool with the fairness of the host scheduler.           *)
(***************************************************************************)
EXTENDS Integers, Sequences, FiniteSets

(***************************************************************************)
(* Bounds of the model.                                                    *)
(***************************************************************************)
\* longest input sequence fed to sortiter
MaxItems == 4
\* keys (Msg.order) of the input range over 0..MaxKey
MaxKey == 3
\* the `start` argument of sortiter ranges over 0..MaxStart
MaxStart == 1
\* largest pool: the number of workers ranges over 1..MaxWorkers
MaxWorkers == 2
\* most data messages the producer sends on the input channel
MaxMsgs == 2
\* most calls of Q.end() on the input channel besides those of endq_and_wait
MaxExtraEnds == 1
\* a Q object on its own: most calls of Q.put, and of Q.end and Q.items
MaxPuts == 2
MaxCalls == 2
\* its `maxsize` ranges over 0..MaxSize (0: unbounded)
MaxSize == 1
\* the `order` of the messages put on it ranges over 0..MaxOrder
MaxOrder == 1
\* a call of map: the iterables hold at most MaxArgs values each
MaxArgs == 3

Keys == 0..MaxKey
Starts == 0..MaxStart

VARIABLES
    \* ---- sortiter (one generator instance) ----
    start,      \* the `start` argument
    prev,       \* local `prev`
    waiting,    \* local `waiting`: list of items
    spc,        \* position of the generator: "next", "loop", "drain", "done"
    input,      \* items the generator has taken from `items` so far
    output,     \* items the generator has yielded so far
    yieldLog,   \* per yield: arrivals consumed at that time, and the phase
    \* ---- channels, workers and the controller ----
    pool,       \* number of workers started on the input channel
    q,          \* the input channel: FIFO of messages
    out,        \* the output channel: FIFO of messages
    wpc,        \* per worker: "iter" (in q.get), "work" (loop body), "done"
    cur,        \* per worker: the message its iterator yielded last
    got,        \* per worker: every message it has dequeued from q
    yielded,    \* per worker: every message its iterator has yielded
    sawEmpty,   \* per worker: whether q.get has raised Empty
    mpc,        \* main thread: "put", "ending", "joining", "returned", "ended",
                \*   and in map "loop", "drain", "done"
    nput,       \* data messages sent so far
    handles,    \* len(_workers): the handles given to endq_and_wait
    nsent,      \* sentinels sent by endq_and_wait
    joined,     \* workers whose join() has returned
    stopArg,    \* the `workers` argument of endq_and_wait
    nextra,     \* calls of Q.end() on the input channel by the main thread
    \* ---- one Q object used by a single thread ----
    maxsize,    \* `maxsize` given to the queue constructor (0: unbounded)
    ch,         \* Q.q: the messages in the wrapped queue
    items,      \* Q._items: the cache, [built, list]
    calls,      \* the calls of Q.items so far, with what they returned
    opc,        \* the caller: "ready", or "blocked" inside q.put or q.get
    nqput,      \* calls of Q.put so far
    nqend,      \* calls of Q.end on its own so far
    \* ---- one call of map ----
    func,       \* the `func` argument
    xs,         \* the first iterable of `args`
    ys,         \* the second iterable of `args`
    wprev,      \* per worker: `prev` of its sortiter
    wwait,      \* per worker: `waiting` of its sortiter
    results     \* the values map has yielded

sortVars == <<start, prev, waiting, spc, input, output, yieldLog>>

poolVars == <<pool, q, out, wpc, cur, got, yielded, sawEmpty,
              mpc, nput, handles, nsent, joined, stopArg, nextra>>

objVars == <<maxsize, ch, items, calls, opc, nqput, nqend>>

mapVars == <<func, xs, ys, wprev, wwait, results>>

vars == <<sortVars, poolVars, objVars, mapVars>>

(***************************************************************************)
(* Msg and END_MSG.                                                        *)
(***************************************************************************)
Msg(kind, data, order) == [kind |-> kind, data |-> data, order |-> order]

END_KIND == "END"

\* key = attrgetter("order")
key(item) == item.order

\* ---- variants of the definitions below with a slip in them ----
RECURSIVE InsertDescUnique(_, _)
InsertDescUnique(sorted, item) ==
    IF sorted = <<>> THEN <<item>>
    ELSE IF key(Head(sorted)) = key(item)
         THEN <<item>> \o Tail(sorted)
         ELSE IF key(Head(sorted)) > key(item)
              THEN <<Head(sorted)>> \o InsertDescUnique(Tail(sorted), item)
              ELSE <<item>> \o sorted

RECURSIVE InsertAsc(_, _)
InsertAsc(sorted, item) ==
    IF sorted = <<>> THEN <<item>>
    ELSE IF key(Head(sorted)) <= key(item)
         THEN <<Head(sorted)>> \o InsertAsc(Tail(sorted), item)
         ELSE <<item>> \o sorted

RECURSIVE SortAsc(_)
SortAsc(list) ==
    IF list = <<>> THEN <<>>
    ELSE InsertAsc(SortAsc(SubSeq(list, 1, Len(list) - 1)), list[Len(list)])

NoSort(list) == list

(***************************************************************************)
(* list.sort(key=key, reverse=True): a stable sort into descending key     *)
(* order; items of equal key keep their relative order in the list.        *)
(***************************************************************************)
RECURSIVE InsertDesc(_, _)
InsertDesc(sorted, item) ==
    IF sorted = <<>> THEN <<item>>
    ELSE IF key(Head(sorted)) >= key(item)
         THEN <<Head(sorted)>> \o InsertDesc(Tail(sorted), item)
         ELSE <<item>> \o sorted

RECURSIVE SortDesc(_)
SortDesc(list) ==
    IF list = <<>> THEN <<>>
    ELSE InsertDesc(SortDesc(SubSeq(list, 1, Len(list) - 1)), list[Len(list)])

Last(list) == list[Len(list)]
\* list.pop() leaves the list without its last element
Popped(list) == SubSeq(list, 1, Len(list) - 1)

\* the new item goes before the items of equal key
RECURSIVE InsertedBeforeEquals(_, _)
InsertedBeforeEquals(list, item) ==
    IF list = <<>> THEN <<item>>
    ELSE IF key(Head(list)) > key(item)
         THEN <<Head(list)>> \o InsertedBeforeEquals(Tail(list), item)
         ELSE <<item>> \o list

\* `waiting.append(item); waiting.sort(key=key, reverse=True)`
Inserted(list, item) == SortDesc(Append(list, item))

(***************************************************************************)
(* sortiter                                                                *)
(***************************************************************************)
SortInit ==
    /\ start \in Starts
    /\ prev = start - 1
    /\ waiting = <<>>
    /\ spc = "next"
    /\ input = <<>>
    /\ output = <<>>
    /\ yieldLog = <<>>

\* the generator yields `item`
Yield(item, phase) ==
    /\ output' = Append(output, item)
    /\ yieldLog' = Append(yieldLog, [at |-> Len(input'), phase |-> phase])

FastPathOffByOne(item) == waiting = <<>> /\ key(item) = prev
FastPathAtLeast(item) == waiting = <<>> /\ key(item) >= prev + 1
FastPathIgnoreWaiting(item) == key(item) = prev + 1

\* `if not waiting and key(item) == prev + 1`
FastPath(item) == waiting = <<>> /\ key(item) = prev + 1

LoopCondAtLeast == waiting # <<>> /\ key(Last(waiting)) >= prev + 1
LoopCondAtMost == waiting # <<>> /\ key(Last(waiting)) <= prev + 1

\* `while waiting and key(waiting[-1]) == prev + 1`
LoopCond == waiting # <<>> /\ key(Last(waiting)) = prev + 1

\* `for item in items`: the next item arrives; it is yielded at once on the
\* fast path, and appended to `waiting` (which is then sorted) otherwise.
Arrive(k) ==
    /\ spc = "next"
    /\ Len(input) < MaxItems
    /\ LET item == Msg("", Len(input) + 1, k) IN
        /\ input' = Append(input, item)
        /\ IF FastPath(item)
           THEN /\ prev' = prev + 1
                /\ Yield(item, "run")
                /\ UNCHANGED <<waiting, spc>>
           ELSE /\ waiting' = Inserted(waiting, item)
                /\ spc' = "loop"
                /\ UNCHANGED <<prev, output, yieldLog>>
    /\ UNCHANGED <<start, poolVars, objVars, mapVars>>

\* one turn of the while loop: `prev += 1; yield waiting.pop()`
LoopYield ==
    /\ spc = "loop"
    /\ LoopCond
    /\ prev' = prev + 1
    /\ waiting' = Popped(waiting)
    /\ UNCHANGED <<start, spc, input, poolVars, objVars, mapVars>>
    /\ Yield(Last(waiting), "run")

\* the while loop ends; back to the for loop
LoopExit ==
    /\ spc = "loop"
    /\ ~LoopCond
    /\ spc' = "next"
    /\ UNCHANGED <<start, prev, waiting, input, output, yieldLog, poolVars, objVars, mapVars>>

\* `items` is exhausted: "generator ended; yield any waiting items"
EndInput ==
    /\ spc = "next"
    /\ spc' = "drain"
    /\ UNCHANGED <<start, prev, waiting, input, output, yieldLog, poolVars, objVars, mapVars>>

\* `while waiting: yield waiting.pop()`
DrainYield ==
    /\ spc = "drain"
    /\ waiting # <<>>
    /\ waiting' = Popped(waiting)
    /\ UNCHANGED <<start, prev, spc, input, poolVars, objVars, mapVars>>
    /\ Yield(Last(waiting), "drain")

DrainDone ==
    /\ spc = "drain"
    /\ waiting = <<>>
    /\ spc' = "done"
    /\ UNCHANGED <<start, prev, waiting, input, output, yieldLog, poolVars, objVars, mapVars>>

(***************************************************************************)
(* Channel, iterator, workers and the lifecycle controller.                *)
(***************************************************************************)
Workers == 1..pool

\* END_MSG = Msg(kind="END")
END_MSG == Msg(END_KIND, 0, 0)

\* a `workers` argument: a single Thread/Process handle, or a sequence
OneHandle(w) == [isWorker |-> TRUE, handle |-> w, seq |-> <<>>]
SeqOfHandles(n) == [isWorker |-> FALSE, handle |-> 0, seq |-> [i \in 1..n |-> i]]

PoolInit ==
    /\ pool \in 1..MaxWorkers
    /\ q = <<>>
    /\ out = <<>>
    /\ wpc = [w \in 1..MaxWorkers |-> IF w <= pool THEN "iter" ELSE "none"]
    /\ cur = [w \in 1..MaxWorkers |-> END_MSG]
    /\ got = [w \in 1..MaxWorkers |-> <<>>]
    /\ yielded = [w \in 1..MaxWorkers |-> <<>>]
    /\ sawEmpty = [w \in 1..MaxWorkers |-> FALSE]
    /\ mpc = "put"
    /\ nput = 0
    /\ handles = 0
    /\ nsent = 0
    /\ joined = {}
    /\ stopArg = SeqOfHandles(0)
    /\ nextra = 0

IsEndIdentity(msg) == msg = END_MSG

\* `msg.kind == END_MSG.kind`
IsEnd(msg) == msg.kind = END_MSG.kind

\* put_msg(q, data=i, order=i): q.put(Msg(kind, data, order))
Put ==
    /\ mpc = "put"
    /\ nput < MaxMsgs
    /\ nput' = nput + 1
    /\ q' = Append(q, Msg("", nput + 1, nput + 1))
    /\ UNCHANGED <<sortVars, objVars, mapVars, stopArg, nextra, pool, out, wpc, cur, got, yielded, sawEmpty,
                   mpc, handles, nsent, joined>>

\* Q.end() on the input channel: self.q.put(END_MSG)
EndCall ==
    /\ mpc = "put"
    /\ nextra < MaxExtraEnds
    /\ q' = Append(q, END_MSG)
    /\ nextra' = nextra + 1
    /\ UNCHANGED <<sortVars, objVars, mapVars, stopArg, pool, out, wpc, cur, got, yielded,
                   sawEmpty, mpc, nput, handles, nsent, joined>>

NormWorkersSeqOnly(workers) == workers.seq

\* `_workers`: a single handle becomes a list of one
NormWorkers(workers) ==
    IF workers.isWorker THEN <<workers.handle>> ELSE workers.seq

\* endq_and_wait(q, workers) is called with the first n worker handles
StopCall(n) ==
    /\ mpc = "put"
    /\ n <= pool
    /\ stopArg' = SeqOfHandles(n)
    /\ handles' = Len(NormWorkers(SeqOfHandles(n)))
    /\ mpc' = "ending"
    /\ UNCHANGED <<sortVars, objVars, mapVars, nextra, pool, q, out, wpc, cur, got, yielded,
                   sawEmpty, nput, nsent, joined>>

\* endq_and_wait(q, worker) is called with the single handle of worker 1
StopCallOne ==
    /\ mpc = "put"
    /\ stopArg' = OneHandle(1)
    /\ handles' = Len(NormWorkers(OneHandle(1)))
    /\ mpc' = "ending"
    /\ UNCHANGED <<sortVars, objVars, mapVars, nextra, pool, q, out, wpc, cur, got, yielded,
                   sawEmpty, nput, nsent, joined>>

\* two sentinels go out for one handle
SendEndTwice ==
    /\ mpc = "ending"
    /\ nsent < handles
    /\ q' = Append(Append(q, END_MSG), END_MSG)
    /\ nsent' = nsent + 1
    /\ UNCHANGED <<sortVars, objVars, mapVars, stopArg, nextra, pool, out, wpc, cur, got, yielded, sawEmpty,
                   mpc, nput, handles, joined>>

\* `for _ in range(len(_workers)): endq(q)`: one q.put(END_MSG)
SendEnd ==
    /\ mpc = "ending"
    /\ nsent < handles
    /\ q' = Append(q, END_MSG)
    /\ nsent' = nsent + 1
    /\ UNCHANGED <<sortVars, objVars, mapVars, stopArg, nextra, pool, out, wpc, cur, got, yielded, sawEmpty,
                   mpc, nput, handles, joined>>

\* the first loop is over; `for worker in _workers` begins
StartJoin ==
    /\ mpc = "ending"
    /\ nsent = handles
    /\ mpc' = "joining"
    /\ UNCHANGED <<sortVars, objVars, mapVars, stopArg, nextra, pool, q, out, wpc, cur, got, yielded, sawEmpty,
                   nput, handles, nsent, joined>>

\* the worker to join next: the handles are joined in list order
NextToJoin == Cardinality(joined) + 1

JoinNoWait(w) == TRUE

\* `worker.join()` returns once the worker has terminated
JoinReady(w) == wpc[w] = "done"

Join(w) ==
    /\ mpc = "joining"
    /\ w = NextToJoin
    /\ w <= handles
    /\ JoinReady(w)
    /\ joined' = joined \cup {w}
    /\ UNCHANGED <<sortVars, objVars, mapVars, stopArg, nextra, pool, q, out, wpc, cur, got, yielded, sawEmpty,
                   mpc, nput, handles, nsent>>

AllJoinedAfterFirst == joined # {}

\* `for worker in _workers` is exhausted
AllJoined == NextToJoin > handles

\* `return _workers`
StopReturn ==
    /\ mpc = "joining"
    /\ AllJoined
    /\ mpc' = "returned"
    /\ UNCHANGED <<sortVars, objVars, mapVars, stopArg, nextra, pool, q, out, wpc, cur, got, yielded, sawEmpty,
                   nput, handles, nsent, joined>>

BreaksAlways(msg) == TRUE

\* iter_msg: whether the dequeued message ends the iteration (`break`)
Breaks(msg) == IsEnd(msg)

\* the sentinel is put back in the channel (`q.put(END_MSG)` before `break`)
GetPutBack(w) ==
    /\ wpc[w] = "iter"
    /\ q # <<>>
    /\ q' = IF IsEnd(Head(q)) THEN Append(Tail(q), Head(q)) ELSE Tail(q)
    /\ got' = [got EXCEPT ![w] = Append(@, Head(q))]
    /\ IF Breaks(Head(q))
       THEN /\ wpc' = [wpc EXCEPT ![w] = "done"]
            /\ UNCHANGED <<cur, yielded>>
       ELSE /\ wpc' = [wpc EXCEPT ![w] = "work"]
            /\ cur' = [cur EXCEPT ![w] = Head(q)]
            /\ yielded' = [yielded EXCEPT ![w] = Append(@, Head(q))]
    /\ UNCHANGED <<sortVars, objVars, mapVars, stopArg, nextra, pool, out, sawEmpty, mpc, nput, handles, nsent, joined>>

\* a data message is read without being removed
GetPeek(w) ==
    /\ wpc[w] = "iter"
    /\ q # <<>>
    /\ q' = IF IsEnd(Head(q)) THEN Tail(q) ELSE q
    /\ got' = [got EXCEPT ![w] = Append(@, Head(q))]
    /\ IF Breaks(Head(q))
       THEN /\ wpc' = [wpc EXCEPT ![w] = "done"]
            /\ UNCHANGED <<cur, yielded>>
       ELSE /\ wpc' = [wpc EXCEPT ![w] = "work"]
            /\ cur' = [cur EXCEPT ![w] = Head(q)]
            /\ yielded' = [yielded EXCEPT ![w] = Append(@, Head(q))]
    /\ UNCHANGED <<sortVars, objVars, mapVars, stopArg, nextra, pool, out, sawEmpty, mpc, nput, handles, nsent, joined>>

\* iter_msg: `msg = q.get(...)` returns the head of the channel; the
\* iterator ends on a message of kind END and yields any other message
\* to the body of the worker's loop.
Get(w) ==
    /\ wpc[w] = "iter"
    /\ q # <<>>
    /\ q' = Tail(q)
    /\ got' = [got EXCEPT ![w] = Append(@, Head(q))]
    /\ IF Breaks(Head(q))
       THEN /\ wpc' = [wpc EXCEPT ![w] = "done"]
            /\ UNCHANGED <<cur, yielded>>
       ELSE /\ wpc' = [wpc EXCEPT ![w] = "work"]
            /\ cur' = [cur EXCEPT ![w] = Head(q)]
            /\ yielded' = [yielded EXCEPT ![w] = Append(@, Head(q))]
    /\ UNCHANGED <<sortVars, objVars, mapVars, stopArg, nextra, pool, out, sawEmpty, mpc, nput, handles, nsent, joined>>

\* after stop has returned: Q.end() on the output channel
OutEnd ==
    /\ mpc = "returned"
    /\ out' = Append(out, END_MSG)
    /\ mpc' = "ended"
    /\ UNCHANGED <<sortVars, objVars, mapVars, stopArg, nextra, pool, q, wpc, cur, got, yielded,
                   sawEmpty, nput, handles, nsent, joined>>

AfterEmptyBreak == "done"

\* iter_msg: where the iterator stands after q.get raised Empty (`continue`)
AfterEmpty == "iter"

\* iter_msg: q.get raises Empty after the poll interval ("queue might not
\* actually be empty"); the iterator tries again.
GetEmpty(w) ==
    /\ wpc[w] = "iter"
    /\ wpc' = [wpc EXCEPT ![w] = AfterEmpty]
    /\ sawEmpty' = [sawEmpty EXCEPT ![w] = TRUE]
    /\ UNCHANGED <<sortVars, objVars, mapVars, stopArg, nextra, pool, q, out, cur, got, yielded,
                   mpc, nput, handles, nsent, joined>>

\* the body of the worker's loop: put_msg(out, data=msg.data + 1,
\* order=msg.order), then back to the iterator
PutResult(w) ==
    /\ wpc[w] = "work"
    /\ out' = Append(out, Msg("", cur[w].data + 1, cur[w].order))
    /\ wpc' = [wpc EXCEPT ![w] = "iter"]
    /\ UNCHANGED <<sortVars, objVars, mapVars, stopArg, nextra, pool, q, cur, got, yielded, sawEmpty,
                   mpc, nput, handles, nsent, joined>>

(***************************************************************************)
(* sortiter as a function of the whole input: what the generator yields    *)
(* when it is run to its end.                                              *)
(***************************************************************************)
Reversed(list) == [i \in 1..Len(list) |-> list[Len(list) + 1 - i]]

\* the while loop of sortiter, run until its condition fails
RECURSIVE LoopRun(_, _, _)
LoopRun(prv, wait, acc) ==
    IF wait # <<>> /\ key(Last(wait)) = prv + 1
    THEN LoopRun(prv + 1, Popped(wait), Append(acc, Last(wait)))
    ELSE [prv |-> prv, wait |-> wait, acc |-> acc]

RECURSIVE SortIterRun(_, _, _, _)
SortIterRun(list, prv, wait, acc) ==
    IF list = <<>> THEN acc \o Reversed(wait)
    ELSE IF wait = <<>> /\ key(Head(list)) = prv + 1
         THEN SortIterRun(Tail(list), prv + 1, wait, Append(acc, Head(list)))
         ELSE LET r == LoopRun(prv, Inserted(wait, Head(list)), acc)
              IN  SortIterRun(Tail(list), r.prv, r.wait, r.acc)

\* list(sortiter(list, start))
SortIter(list, strt) == SortIterRun(list, strt - 1, <<>>, <<>>)

(***************************************************************************)
(* A Q object used by one thread: Q.put, Q.end, Q.items.                   *)
(***************************************************************************)
ObjInit ==
    /\ maxsize \in 0..MaxSize
    /\ ch = <<>>
    /\ items = [built |-> FALSE, list |-> <<>>]
    /\ calls = <<>>
    /\ opc = "ready"
    /\ nqput = 0
    /\ nqend = 0

\* queue.Queue / multiprocessing.Queue: the queue is full
IsFull(chan) == maxsize > 0 /\ Len(chan) >= maxsize

\* q.put_nowait(msg): raises Full on a full queue
PutNowait(chan, msg) ==
    IF IsFull(chan) THEN [chan |-> chan, outcome |-> "Full"]
    ELSE [chan |-> Append(chan, msg), outcome |-> "ok"]

\* q.put(msg), block=True and no timeout: waits while the queue is full
PutBlocking(chan, msg) ==
    IF IsFull(chan) THEN [chan |-> chan, outcome |-> "blocked"]
    ELSE [chan |-> Append(chan, msg), outcome |-> "ok"]

\* Q.put(data, kind, order): self.q.put_nowait(...)
QPutEffect(chan, msg) == PutNowait(chan, msg)

\* Q.end(): self.q.put(END_MSG)
QEndEffect(chan) == PutBlocking(chan, END_MSG)

\* iter_msg run to its end: the messages before the first sentinel are
\* yielded, the sentinel is consumed, the rest stays in the queue
RECURSIVE UntilEnd(_)
UntilEnd(chan) ==
    IF chan = <<>> THEN <<>>
    ELSE IF IsEnd(Head(chan)) THEN <<>>
         ELSE <<Head(chan)>> \o UntilEnd(Tail(chan))

AfterEndKeepsSentinel(chan) == SubSeq(chan, Len(UntilEnd(chan)) + 1, Len(chan))

AfterEnd(chan) == SubSeq(chan, Len(UntilEnd(chan)) + 2, Len(chan))

\* `self.sorted() if sort else self`, run to its end
Iterated(chan, srt) == IF srt THEN SortIter(UntilEnd(chan), 0) ELSE UntilEnd(chan)

HasEnd(chan) == Len(UntilEnd(chan)) < Len(chan)

\* Q.put(data=n, order=k): on a full queue Full is raised to the caller
\* and the queue is left as it was
QPut(k) ==
    /\ opc = "ready"
    /\ nqput < MaxPuts
    /\ nqput' = nqput + 1
    /\ ch' = QPutEffect(ch, Msg("", nqput + 1, k)).chan
    /\ UNCHANGED <<sortVars, poolVars, mapVars, maxsize, items, calls, opc, nqend>>

\* Q.put(data=n, kind="END"): a message of the caller's with the kind of
\* END_MSG; Q.put looks at no field of the message
QPutEnd ==
    /\ opc = "ready"
    /\ nqput < MaxPuts
    /\ nqput' = nqput + 1
    /\ ch' = QPutEffect(ch, Msg(END_KIND, nqput + 1, 0)).chan
    /\ UNCHANGED <<sortVars, poolVars, mapVars, maxsize, items, calls, opc, nqend>>

\* Q.end() called on its own
QEnd ==
    /\ opc = "ready"
    /\ Len(calls) + nqend < MaxCalls
    /\ nqend' = nqend + 1
    /\ LET e == QEndEffect(ch)
       IN  IF e.outcome = "blocked"
           THEN opc' = "blocked" /\ UNCHANGED ch
           ELSE ch' = e.chan /\ UNCHANGED opc
    /\ UNCHANGED <<sortVars, poolVars, mapVars, maxsize, items, calls, nqput>>

\* a call of Q.items as it is logged
Call(c, srt, state, result, seen, after) ==
    [cache |-> c, sort |-> srt, before |-> ch, state |-> state,
     result |-> result, seen |-> seen, after |-> after]

CacheHitNever == FALSE

\* `self._items is None` is false: the cache has been built
CacheHit == items.built

\* what a call with cache=True returns: iter(self._items)
Cached(srt) == items.list

\* Q.items(cache=c, sort=srt).  With a cache already built the cache is
\* returned.  Otherwise the call starts with self.end(), which waits for
\* ever on a full queue; then with cache=True the iterator is run to its
\* end into the cache, and with cache=False the iterator is returned to
\* the caller, who runs it later.
QItems(c, srt) ==
    /\ opc = "ready"
    /\ Len(calls) + nqend < MaxCalls
    /\ IF c /\ CacheHit
       THEN /\ calls' = Append(calls,
                   Call(c, srt, "returned", Cached(srt), ch, ch))
            /\ UNCHANGED <<ch, items, opc>>
       ELSE LET e == QEndEffect(ch) IN
            IF e.outcome = "blocked"
            THEN /\ opc' = "blocked"
                 /\ calls' = Append(calls, Call(c, srt, "blocked", <<>>, ch, ch))
                 /\ UNCHANGED <<ch, items>>
            ELSE IF c
                 THEN /\ items' = [built |-> TRUE, list |-> Iterated(e.chan, srt)]
                      /\ ch' = AfterEnd(e.chan)
                      /\ calls' = Append(calls,
                             Call(c, srt, "returned", Cached(srt)', e.chan, ch'))
                      /\ UNCHANGED opc
                 ELSE /\ ch' = e.chan
                      /\ calls' = Append(calls,
                             Call(c, srt, "pending", <<>>, <<>>, <<>>))
                      /\ UNCHANGED <<items, opc>>
    /\ UNCHANGED <<sortVars, poolVars, mapVars, maxsize, nqput, nqend>>

\* the caller runs the iterator that call i returned to its end
QConsume(i) ==
    /\ opc = "ready"
    /\ i <= Len(calls)
    /\ calls[i].state = "pending"
    /\ IF HasEnd(ch)
       THEN /\ calls' = [calls EXCEPT ![i] =
                   [@ EXCEPT !.state = "returned",
                             !.result = Iterated(ch, calls[i].sort),
                             !.seen = ch,
                             !.after = AfterEnd(ch)]]
            /\ ch' = AfterEnd(ch)
            /\ UNCHANGED opc
       ELSE /\ calls' = [calls EXCEPT ![i] = [@ EXCEPT !.state = "blocked"]]
            /\ ch' = <<>>
            /\ opc' = "blocked"
    /\ UNCHANGED <<sortVars, poolVars, mapVars, maxsize, items, nqput, nqend>>

(***************************************************************************)
(* map(func, xs, ys, num=pool): the workers run _worker on the input       *)
(* channel q and the output channel out; the caller sends the zipped       *)
(* arguments, stops the workers and reads out sorted.                      *)
(***************************************************************************)
Funcs == {"add", "sub", "first"}

\* func(*msg.data)
Apply(f, args) ==
    CASE f = "add" -> args[1] + args[2]
      [] f = "sub" -> args[1] - args[2]
      [] f = "first" -> args[1]

\* range(n) and range(n, 0, -1), the iterables of test_map
Range(n) == [i \in 1..n |-> i - 1]
Countdown(n) == [i \in 1..n |-> n + 1 - i]

\* no call of map
MapIdle ==
    /\ func = "add"
    /\ xs = <<>>
    /\ ys = <<>>
    /\ wprev = [w \in 1..MaxWorkers |-> -1]
    /\ wwait = [w \in 1..MaxWorkers |-> <<>>]
    /\ results = <<>>

\* map is called: both channels are empty, `pool` workers are started,
\* and each worker's sortiter has prev = start - 1 and nothing waiting
MapInit ==
    /\ func \in Funcs
    /\ xs \in {Range(n) : n \in 0..MaxArgs}
    /\ ys \in {Countdown(n) : n \in 0..MaxArgs}
    /\ wprev = [w \in 1..MaxWorkers |-> -1]
    /\ wwait = [w \in 1..MaxWorkers |-> <<>>]
    /\ results = <<>>

\* zip(*args)
Zip(a, b) ==
    [i \in 1..(IF Len(a) <= Len(b) THEN Len(a) ELSE Len(b)) |-> <<a[i], b[i]>>]

\* enumerate: the order of the i-th zipped tuple, counted from 1 here
Order(i) == i - 1

\* `for order, value in enumerate(zip(*args)): q.put(value, order=order)`
MapPut ==
    /\ mpc = "put"
    /\ nput < Len(Zip(xs, ys))
    /\ nput' = nput + 1
    /\ q' = Append(q, Msg("", Zip(xs, ys)[nput + 1], Order(nput + 1)))
    /\ UNCHANGED <<sortVars, objVars, mapVars, stopArg, nextra, pool, out, wpc,
                   cur, got, yielded, sawEmpty, mpc, handles, nsent, joined>>

\* q.stop(workers), with the list of all the workers
MapStop ==
    /\ mpc = "put"
    /\ nput = Len(Zip(xs, ys))
    /\ stopArg' = SeqOfHandles(pool)
    /\ handles' = Len(NormWorkers(SeqOfHandles(pool)))
    /\ mpc' = "ending"
    /\ UNCHANGED <<sortVars, objVars, mapVars, nextra, pool, q, out, wpc, cur,
                   got, yielded, sawEmpty, nput, nsent, joined>>

WorkerResultNoOrder(msg) == Msg("", Apply(func, msg.data), 0)

\* `_out.put(data=func(*msg.data), order=msg.order)`
WorkerResult(msg) == Msg("", Apply(func, msg.data), msg.order)

\* _worker: `for msg in _q.sorted()` takes the next message of q.  The
\* sentinel ends the input of its sortiter; a message on the fast path is
\* yielded to the body of the loop; any other message is added to `waiting`.
WorkerGet(w) ==
    /\ wpc[w] = "iter"
    /\ q # <<>>
    /\ q' = Tail(q)
    /\ IF Breaks(Head(q))
       THEN /\ wpc' = [wpc EXCEPT ![w] = "drain"]
            /\ UNCHANGED <<cur, wprev, wwait>>
       ELSE IF wwait[w] = <<>> /\ key(Head(q)) = wprev[w] + 1
            THEN /\ wprev' = [wprev EXCEPT ![w] = @ + 1]
                 /\ cur' = [cur EXCEPT ![w] = Head(q)]
                 /\ wpc' = [wpc EXCEPT ![w] = "work"]
                 /\ UNCHANGED wwait
            ELSE /\ wwait' = [wwait EXCEPT ![w] = Inserted(@, Head(q))]
                 /\ wpc' = [wpc EXCEPT ![w] = "loop"]
                 /\ UNCHANGED <<cur, wprev>>
    /\ UNCHANGED <<sortVars, objVars, func, xs, ys, results, stopArg, nextra,
                   pool, out, got, yielded, sawEmpty, mpc, nput, handles,
                   nsent, joined>>

\* _worker: the body of the loop for the message yielded on the fast path
WorkerPut(w) ==
    /\ wpc[w] = "work"
    /\ out' = Append(out, WorkerResult(cur[w]))
    /\ wpc' = [wpc EXCEPT ![w] = "iter"]
    /\ UNCHANGED <<sortVars, objVars, mapVars, stopArg, nextra, pool, q, cur,
                   got, yielded, sawEmpty, mpc, nput, handles, nsent, joined>>

\* _worker: the while loop of its sortiter; a message it yields goes
\* through the body of the loop
WorkerLoop(w) ==
    /\ wpc[w] = "loop"
    /\ IF wwait[w] # <<>> /\ key(Last(wwait[w])) = wprev[w] + 1
       THEN /\ wprev' = [wprev EXCEPT ![w] = @ + 1]
            /\ wwait' = [wwait EXCEPT ![w] = Popped(@)]
            /\ out' = Append(out, WorkerResult(Last(wwait[w])))
            /\ UNCHANGED wpc
       ELSE /\ wpc' = [wpc EXCEPT ![w] = "iter"]
            /\ UNCHANGED <<wprev, wwait, out>>
    /\ UNCHANGED <<sortVars, objVars, func, xs, ys, results, stopArg, nextra,
                   pool, q, cur, got, yielded, sawEmpty, mpc, nput, handles,
                   nsent, joined>>

\* _worker: its sortiter yields what is still waiting, then the worker
\* returns
WorkerDrain(w) ==
    /\ wpc[w] = "drain"
    /\ IF wwait[w] # <<>>
       THEN /\ wwait' = [wwait EXCEPT ![w] = Popped(@)]
            /\ out' = Append(out, WorkerResult(Last(wwait[w])))
            /\ UNCHANGED wpc
       ELSE /\ wpc' = [wpc EXCEPT ![w] = "done"]
            /\ UNCHANGED <<wwait, out>>
    /\ UNCHANGED <<sortVars, objVars, func, xs, ys, wprev, results, stopArg,
                   nextra, pool, q, cur, got, yielded, sawEmpty, mpc, nput,
                   handles, nsent, joined>>

\* `for msg in out.end().sorted(): yield msg.data`, after out.end(): the
\* caller's sortiter takes the next message of out.  The sentinel ends its
\* input; a message on the fast path is yielded, and map yields its data;
\* any other message is added to `waiting`.
MapNext ==
    /\ mpc = "ended"
    /\ out # <<>>
    /\ out' = Tail(out)
    /\ IF Breaks(Head(out))
       THEN /\ mpc' = "drain"
            /\ UNCHANGED <<prev, waiting, results>>
       ELSE IF FastPath(Head(out))
            THEN /\ prev' = prev + 1
                 /\ results' = Append(results, Head(out).data)
                 /\ UNCHANGED <<waiting, mpc>>
            ELSE /\ waiting' = Inserted(waiting, Head(out))
                 /\ mpc' = "loop"
                 /\ UNCHANGED <<prev, results>>
    /\ UNCHANGED <<start, spc, input, output, yieldLog, objVars, func, xs, ys,
                   wprev, wwait, stopArg, nextra, pool, q, wpc, cur, got,
                   yielded, sawEmpty, nput, handles, nsent, joined>>

\* the while loop of the caller's sortiter
MapLoop ==
    /\ mpc = "loop"
    /\ IF LoopCond
       THEN /\ prev' = prev + 1
            /\ waiting' = Popped(waiting)
            /\ results' = Append(results, Last(waiting).data)
            /\ UNCHANGED mpc
       ELSE /\ mpc' = "ended"
            /\ UNCHANGED <<prev, waiting, results>>
    /\ UNCHANGED <<start, spc, input, output, yieldLog, objVars, func, xs, ys,
                   wprev, wwait, stopArg, nextra, pool, q, out, wpc, cur, got,
                   yielded, sawEmpty, nput, handles, nsent, joined>>

\* the caller's sortiter yields what is still waiting; then map returns
MapDrain ==
    /\ mpc = "drain"
    /\ IF waiting # <<>>
       THEN /\ waiting' = Popped(waiting)
            /\ results' = Append(results, Last(waiting).data)
            /\ UNCHANGED mpc
       ELSE /\ mpc' = "done"
            /\ UNCHANGED <<waiting, results>>
    /\ UNCHANGED <<start, prev, spc, input, output, yieldLog, objVars, func,
                   xs, ys, wprev, wwait, stopArg, nextra, pool, q, out, wpc,
                   cur, got, yielded, sawEmpty, nput, handles, nsent, joined>>

(***************************************************************************)
(* Specifications.                                                         *)
(***************************************************************************)
\* one run of sortiter; no pool is running
Init == SortInit /\ PoolInit /\ pool = 1 /\ ObjInit /\ maxsize = 0 /\ MapIdle

Next ==
    \/ \E k \in Keys : Arrive(k)
    \/ LoopYield
    \/ LoopExit
    \/ EndInput
    \/ DrainYield
    \/ DrainDone

Spec == Init /\ [][Next]_vars

\* a pool of workers on one input channel; no sortiter is running
InitPool ==
    PoolInit /\ SortInit /\ start = 0 /\ ObjInit /\ maxsize = 0 /\ MapIdle

NextPool ==
    \/ Put
    \/ EndCall
    \/ \E n \in 1..MaxWorkers : StopCall(n)
    \/ StopCallOne
    \/ SendEnd
    \/ StartJoin
    \/ \E w \in 1..MaxWorkers : Join(w)
    \/ StopReturn
    \/ OutEnd
    \/ \E w \in 1..MaxWorkers : Get(w)
    \/ \E w \in 1..MaxWorkers : GetEmpty(w)
    \/ \E w \in 1..MaxWorkers : PutResult(w)

SpecPool == InitPool /\ [][NextPool]_vars

\* The host scheduler runs every thread or process that can take a step:
\* a worker blocked in q.get eventually dequeues when a message stays
\* available, and the caller of endq_and_wait proceeds through its loops.
Fairness ==
    /\ \A w \in 1..MaxWorkers : WF_vars(Get(w))
    /\ \A w \in 1..MaxWorkers : WF_vars(PutResult(w))
    /\ \A w \in 1..MaxWorkers : WF_vars(Join(w))
    /\ WF_vars(SendEnd \/ StartJoin \/ StopReturn)

FairPool == InitPool /\ [][NextPool]_vars /\ Fairness

\* one Q object, bounded or not, used by a single thread
InitObj == ObjInit /\ SortInit /\ start = 0 /\ PoolInit /\ pool = 1 /\ MapIdle

NextObj ==
    \/ \E k \in 0..MaxOrder : QPut(k)
    \/ QPutEnd
    \/ QEnd
    \/ \E c, srt \in BOOLEAN : QItems(c, srt)
    \/ \E i \in 1..MaxCalls : QConsume(i)

SpecObj == InitObj /\ [][NextObj]_vars

\* one call of map with `pool` workers
InitMap == MapInit /\ PoolInit /\ SortInit /\ start = 0 /\ ObjInit /\ maxsize = 0

NextMap ==
    \/ MapPut
    \/ MapStop
    \/ SendEnd
    \/ StartJoin
    \/ \E w \in 1..MaxWorkers : Join(w)
    \/ StopReturn
    \/ OutEnd
    \/ MapNext
    \/ MapLoop
    \/ MapDrain
    \/ \E w \in 1..MaxWorkers : WorkerGet(w)
    \/ \E w \in 1..MaxWorkers : WorkerPut(w)
    \/ \E w \in 1..MaxWorkers : WorkerLoop(w)
    \/ \E w \in 1..MaxWorkers : WorkerDrain(w)

SpecMap == InitMap /\ [][NextMap]_vars

\* a step of the thread of worker w, and a step of the caller's thread
WorkerStep(w) == WorkerGet(w) \/ WorkerPut(w) \/ WorkerLoop(w) \/ WorkerDrain(w)
CallerStep ==
    \/ MapPut \/ MapStop \/ SendEnd \/ StartJoin
    \/ (\E w \in 1..MaxWorkers : Join(w))
    \/ StopReturn \/ OutEnd \/ MapNext \/ MapLoop \/ MapDrain

\* every thread that can take a step takes one in the end
FairnessMap ==
    /\ \A w \in 1..MaxWorkers : WF_vars(WorkerStep(w))
    /\ WF_vars(CallerStep)

FairMap == InitMap /\ [][NextMap]_vars /\ FairnessMap

(***************************************************************************)
(* Vocabulary of the properties of sortiter.                               *)
(***************************************************************************)
Idx(seq) == 1..Len(seq)
KeysOf(seq) == [i \in Idx(seq) |-> key(seq[i])]
KeySet(seq) == {key(seq[i]) : i \in Idx(seq)}
NonDecreasing(seq) == \A i, j \in Idx(seq) : i < j => key(seq[i]) <= key(seq[j])
Ascending(seq) == \A i, j \in Idx(seq) : i < j => key(seq[i]) < key(seq[j])
\* every item of b occurs exactly once in a, and a holds nothing else
SameItems(a, b) ==
    /\ Len(a) = Len(b)
    /\ \A i \in Idx(b) : Cardinality({j \in Idx(a) : a[j] = b[i]}) = 1
\* the next key required
expected == prev + 1
\* the input so far has distinct keys, none below start
DistinctFromStart ==
    /\ \A i, j \in Idx(input) : i # j => key(input[i]) # key(input[j])
    /\ \A i \in Idx(input) : key(input[i]) >= start
\* the smallest key from start on that the input does not hold
FirstMissing ==
    CHOOSE m \in start..(start + Len(input)) :
        /\ m \notin KeySet(input)
        /\ \A j \in start..(m - 1) : j \in KeySet(input)
\* some item arrived after an item of a larger key had been yielded
StaleAfterYield ==
    \E i \in Idx(input), j \in Idx(output) :
        yieldLog[j].at < i /\ key(output[j]) > key(input[i])
MaxOf(S) == CHOOSE x \in S : \A y \in S : y <= x

(***************************************************************************)
(* C1. Order preservation: when the input is a permutation of the keys     *)
(* 0..N-1 and start = 0, the complete output has the keys 0,1,...,N-1 in   *)
(* this order.                                                             *)
(***************************************************************************)
IsPermutationFromZero ==
    /\ KeySet(input) = 0..(Len(input) - 1)
    /\ \A i, j \in Idx(input) : i # j => key(input[i]) # key(input[j])

C1_OrderPreservation ==
    (spc = "done" /\ start = 0 /\ IsPermutationFromZero)
        => KeysOf(output) = [i \in Idx(input) |-> i - 1]

C1_Witness ==
    /\ spc = "done"
    /\ start = 0
    /\ KeysOf(input) = <<2, 3, 0, 1>>
    /\ KeysOf(output) = <<0, 1, 2, 3>>

(***************************************************************************)
(* C2. No loss, no duplication: for every input (duplicate keys, missing   *)
(* keys and keys below start included) and every start, the complete       *)
(* output holds exactly the input items, each exactly once.                *)
(***************************************************************************)
C2_OutputIsPermutation == spc = "done" => SameItems(output, input)

C2_Witness ==
    /\ spc = "done"
    /\ start = 1
    /\ KeysOf(input) = <<3, 0, 1, 1>>
    /\ SameItems(output, input)

(***************************************************************************)
(* C3 as stated: the complete output is in non-decreasing key order for    *)
(* every input and every start.                                            *)
(***************************************************************************)
C3_SortedForEveryInput == spc = "done" => NonDecreasing(output)

(***************************************************************************)
(* C3 as amended: the output is in non-decreasing key order as long as no  *)
(* item arrives after an item of a larger key has been yielded; when such  *)
(* an item arrives the complete output is not in key order.                *)
(***************************************************************************)
C3_SortedUnlessStale ==
    /\ ~StaleAfterYield => NonDecreasing(output)
    /\ (spc = "done" /\ StaleAfterYield) => ~NonDecreasing(output)

C3_Witness ==
    /\ spc = "done"
    /\ ~StaleAfterYield
    /\ KeysOf(input) = <<3, 1, 3, 0>>
    /\ KeysOf(output) = <<0, 1, 3, 3>>

(***************************************************************************)
(* C4. Gap tolerance: when the input keys are distinct and >= start, every *)
(* item whose key lies after the first missing key is yielded only after   *)
(* the input has ended, and the complete output is the input in ascending  *)
(* key order.                                                              *)
(***************************************************************************)
C4_GapTolerance ==
    (spc \in {"drain", "done"} /\ DistinctFromStart) =>
        /\ \A j \in Idx(output) :
              key(output[j]) > FirstMissing => yieldLog[j].phase = "drain"
        /\ spc = "done" => (Ascending(output) /\ SameItems(output, input))

C4_Witness ==
    /\ spc = "done"
    /\ start = 0
    /\ KeysOf(input) = <<3, 0, 2>>
    /\ FirstMissing = 1
    /\ KeysOf(output) = <<0, 2, 3>>
    /\ yieldLog[2].phase = "drain"

(***************************************************************************)
(* C5. Fast path: while the items arrive with the consecutive keys start,  *)
(* start+1, ... in this order, `waiting` is empty at every point, no item  *)
(* is ever inserted in it, and the output equals the input.                *)
(***************************************************************************)
InOrder == \A i \in Idx(input) : key(input[i]) = start + i - 1

C5_FastPath ==
    InOrder => (waiting = <<>> /\ spc # "loop" /\ output = input)

C5_Witness ==
    /\ spc = "done"
    /\ InOrder
    /\ Len(input) = MaxItems
    /\ output = input

(***************************************************************************)
(* C6 as stated: before the final drain, every item yielded has a key      *)
(* < expected and every item in `waiting` has a key >= expected, for any   *)
(* input.                                                                  *)
(***************************************************************************)
YieldedBelowExpected == \A j \in Idx(output) : key(output[j]) < expected
WaitingFromExpected == \A i \in Idx(waiting) : key(waiting[i]) >= expected

C6_InvariantForEveryInput ==
    spc \in {"next", "loop"} => (YieldedBelowExpected /\ WaitingFromExpected)

(***************************************************************************)
(* C6 as amended: before the final drain every item yielded has a key      *)
(* < expected, for any input; every item in `waiting` has a key >= expected*)
(* when the input keys are distinct and none is below start.               *)
(***************************************************************************)
C6_InvariantDistinctKeys ==
    spc \in {"next", "loop"} =>
        /\ YieldedBelowExpected
        /\ DistinctFromStart => WaitingFromExpected

C6_Witness ==
    /\ spc = "loop"
    /\ DistinctFromStart
    /\ Len(output) = 2
    /\ Len(waiting) = 2
    /\ key(Last(waiting)) = expected

(***************************************************************************)
(* C7 as stated: all items of equal key are yielded, in the order in which *)
(* they arrived.                                                           *)
(***************************************************************************)
C7_DuplicatesInArrivalOrder ==
    spc = "done" =>
        /\ SameItems(output, input)
        /\ \A a, b \in Idx(output) :
              (a < b /\ key(output[a]) = key(output[b]))
                  => output[a].data < output[b].data

(***************************************************************************)
(* C7 as amended: all items of equal key are yielded; two items of equal   *)
(* key that are held in `waiting` together are yielded in the reverse of   *)
(* their arrival order (the later arrival first); only an item that was    *)
(* yielded before its duplicate arrived comes out before it.               *)
(***************************************************************************)
C7_DuplicatesNewestFirst ==
    /\ spc = "done" => SameItems(output, input)
    /\ \A a, b \in Idx(output) :
          (/\ key(output[a]) = key(output[b])
           /\ output[a].data < output[b].data
           /\ yieldLog[a].at >= output[b].data) => b < a

C7_Witness ==
    /\ spc = "done"
    /\ start = 0
    /\ KeysOf(input) = <<1, 1, 0>>
    /\ [j \in Idx(output) |-> output[j].data] = <<3, 2, 1>>

(***************************************************************************)
(* C8. Minimal hold-back: when the input keys are distinct and >= start,   *)
(* between two arrivals `waiting` holds no item whose key is expected, and *)
(* the item of key k has been yielded, before the drain, during the        *)
(* processing of the arrival that completed the keys start..k.             *)
(***************************************************************************)
CompletedAt(k) == MaxOf({i \in Idx(input) : key(input[i]) \in start..k})

C8_MinimalHoldBack ==
    (spc # "loop" /\ DistinctFromStart) =>
        /\ spc = "next" => \A i \in Idx(waiting) : key(waiting[i]) # expected
        /\ \A i \in Idx(input) :
              (\A j \in start..key(input[i]) : j \in KeySet(input)) =>
                  \E n \in Idx(output) :
                      /\ output[n] = input[i]
                      /\ yieldLog[n].phase = "run"
                      /\ yieldLog[n].at = CompletedAt(key(input[i]))

C8_Witness ==
    /\ spc = "next"
    /\ start = 0
    /\ KeysOf(input) = <<2, 1, 0>>
    /\ KeysOf(output) = <<0, 1, 2>>
    /\ \A n \in Idx(output) : yieldLog[n].at = 3

(***************************************************************************)
(* Vocabulary of the properties of the channel and the pool.               *)
(***************************************************************************)
RECURSIVE WithoutEnd(_)
WithoutEnd(seq) ==
    IF seq = <<>> THEN <<>>
    ELSE IF IsEnd(Head(seq)) THEN WithoutEnd(Tail(seq))
         ELSE <<Head(seq)>> \o WithoutEnd(Tail(seq))

(***************************************************************************)
(* C9. Iteration over a channel ends exactly on a sentinel: an iterator    *)
(* yields every non-sentinel message it dequeues, in dequeue order; it has *)
(* terminated if and only if the last message it dequeued has kind "END";  *)
(* the step that terminates it removes that sentinel from the head of the  *)
(* channel and yields nothing; a q.get that raises Empty leaves the        *)
(* iterator running.                                                       *)
(***************************************************************************)
IterationState ==
    \A w \in Workers :
        /\ yielded[w] = WithoutEnd(got[w])
        /\ wpc[w] = "done" <=> (got[w] # <<>> /\ IsEnd(Last(got[w])))
        /\ \A i \in 1..(Len(got[w]) - 1) : ~IsEnd(got[w][i])
        /\ wpc[w] \in {"iter", "work", "done"}

IterationStep ==
    \A w \in Workers :
        /\ (wpc[w] # "done" /\ wpc'[w] = "done") =>
              /\ q # <<>> /\ IsEnd(Head(q)) /\ q' = Tail(q)
              /\ yielded'[w] = yielded[w]
        /\ (q = <<>> /\ wpc[w] = "iter") => wpc'[w] = "iter"

C9_IterationEndsOnSentinel == [](IterationState) /\ [][IterationStep]_vars

C9_Witness ==
    \E w \in Workers :
        /\ wpc[w] = "done"
        /\ sawEmpty[w]
        /\ Len(yielded[w]) = 2
        /\ Len(got[w]) = 3
        /\ q = <<>>

(***************************************************************************)
(* C10. Lifecycle completeness: when endq_and_wait is called with the      *)
(* handles of all the workers that iterate the input channel, it           *)
(* eventually returns under fair scheduling, and when it has returned      *)
(* every worker has terminated and has been joined.                        *)
(***************************************************************************)
C10_LifecycleCompleteness ==
    /\ [](mpc = "returned" =>
            \A w \in 1..handles : wpc[w] = "done" /\ w \in joined)
    /\ (mpc = "ending" /\ handles = pool) ~> (mpc = "returned")

C10_Witness ==
    /\ mpc = "returned"
    /\ pool = MaxWorkers
    /\ handles = pool
    /\ nput = MaxMsgs
    /\ \A w \in Workers : wpc[w] = "done" /\ w \in joined /\ yielded[w] # <<>>

(***************************************************************************)
(* Counting messages in channels and logs.                                 *)
(***************************************************************************)
RECURSIVE EndsIn(_)
EndsIn(seq) ==
    IF seq = <<>> THEN 0
    ELSE (IF IsEnd(Head(seq)) THEN 1 ELSE 0) + EndsIn(Tail(seq))

\* occurrences in seq of the data message with payload d
CountData(seq, d) ==
    Cardinality({i \in Idx(seq) : ~IsEnd(seq[i]) /\ seq[i].data = d})

RECURSIVE SumData(_)
SumData(seq) ==
    IF seq = <<>> THEN 0
    ELSE (IF IsEnd(Head(seq)) THEN 0 ELSE Head(seq).data) + SumData(Tail(seq))

RECURSIVE SumOver(_, _)
SumOver(f, n) == IF n = 0 THEN 0 ELSE f[n] + SumOver(f, n - 1)

Terminated == {w \in Workers : wpc[w] = "done"}
\* sentinels sent on the input channel, counted at the senders
SentinelsSent == nsent + nextra
\* stop has returned (the main thread may have gone on)
StopReturned == mpc \in {"returned", "ended"}
\* the main thread sends nothing more on the input channel
NoMoreSentinels == mpc \in {"joining", "returned", "ended"}

(***************************************************************************)
(* C11. One sentinel per consumer: in every state the sentinels sent equal *)
(* the sentinels still in the channel plus the iterators that have         *)
(* terminated, a terminated iterator has consumed exactly one sentinel and *)
(* a running one none; once all N workers have terminated after M > N      *)
(* sentinels, exactly M - N sentinels are left in the channel.             *)
(***************************************************************************)
C11_OneSentinelPerConsumer ==
    /\ SentinelsSent = EndsIn(q) + Cardinality(Terminated)
    /\ \A w \in Workers :
          EndsIn(got[w]) = IF wpc[w] = "done" THEN 1 ELSE 0
    /\ Terminated = Workers => EndsIn(q) = SentinelsSent - pool

C11_Witness ==
    /\ Terminated = Workers
    /\ pool = MaxWorkers
    /\ SentinelsSent = pool + 1
    /\ EndsIn(q) = 1
    /\ NoMoreSentinels

(***************************************************************************)
(* C12. Missing sentinels hang: no more workers terminate than sentinels   *)
(* were sent; while fewer than N sentinels have been sent some worker is   *)
(* still iterating (not failed) and cannot be joined; once the main thread *)
(* sends no more, this stays so for ever, and a join that waits for a      *)
(* worker while the channel holds no sentinel never returns.               *)
(***************************************************************************)
Starved == NoMoreSentinels /\ SentinelsSent < pool
JoinStuck ==
    /\ mpc = "joining"
    /\ ~AllJoined
    /\ ~JoinReady(NextToJoin)
    /\ EndsIn(q) = 0

MissingSentinelsState ==
    /\ Cardinality(Terminated) <= SentinelsSent
    /\ SentinelsSent < pool =>
          \E w \in Workers : ~JoinReady(w) /\ wpc[w] \in {"iter", "work"}

MissingSentinelsStep ==
    /\ Starved => Starved'
    /\ JoinStuck => JoinStuck'
    /\ (NoMoreSentinels /\ EndsIn(q) = 0) => Terminated' = Terminated

C12_MissingSentinelsHang ==
    [](MissingSentinelsState) /\ [][MissingSentinelsStep]_vars

C12_Witness ==
    /\ pool = 2
    /\ Starved
    /\ JoinStuck
    /\ NextToJoin = 1
    /\ wpc[2] = "done"
    /\ wpc[1] = "iter"
    /\ sawEmpty[1]
    /\ q = <<>>

(***************************************************************************)
(* C13. Stop is a barrier for output: once stop has returned, every worker *)
(* it was given has terminated and none of them sends on the output        *)
(* channel any more; when it was given the whole pool, a sentinel put on   *)
(* the output channel after the return lies behind every result message.   *)
(***************************************************************************)
\* worker w sends on the output channel in this step
Sends(w) == wpc[w] = "work" /\ wpc'[w] # "work"

BarrierState ==
    /\ StopReturned => \A w \in 1..handles : wpc[w] = "done"
    /\ (mpc = "ended" /\ handles = pool) =>
          /\ IsEnd(Last(out))
          /\ \A i \in 1..(Len(out) - 1) : ~IsEnd(out[i])
          /\ Len(out) = 1 + SumOver([w \in 1..MaxWorkers |-> Len(yielded[w])], MaxWorkers)

BarrierStep ==
    StopReturned =>
        /\ \A w \in 1..handles : ~Sends(w)
        /\ handles = pool => (out' = out \/ out' = Append(out, END_MSG))

C13_StopIsBarrier == [](BarrierState) /\ [][BarrierStep]_vars

C13_Witness ==
    /\ mpc = "ended"
    /\ pool = MaxWorkers
    /\ handles = pool
    /\ Len(out) = MaxMsgs + 1
    /\ IsEnd(Last(out))
    /\ \A w \in Workers : yielded[w] # <<>>

(***************************************************************************)
(* C14. Fan-out delivers each message exactly once: in every state each    *)
(* data message sent is either still in the channel or in the log of       *)
(* exactly one worker, once; when the data was sent with no sentinel but   *)
(* those of stop, and stop was given the whole pool and has returned,      *)
(* every data message has been received and the sum of the payloads        *)
(* received over all workers is the sum of the payloads sent.              *)
(***************************************************************************)
Received(d) == SumOver([w \in 1..MaxWorkers |-> CountData(got[w], d)], MaxWorkers)

C14_FanOutExactlyOnce ==
    /\ \A d \in 1..nput : CountData(q, d) + Received(d) = 1
    /\ (StopReturned /\ handles = pool /\ nextra = 0) =>
          /\ \A d \in 1..nput : Received(d) = 1
          /\ SumOver([w \in 1..MaxWorkers |-> SumData(got[w])], MaxWorkers)
                = SumOver([d \in 1..nput |-> d], nput)

C14_Witness ==
    /\ StopReturned
    /\ pool = MaxWorkers
    /\ handles = pool
    /\ nextra = 0
    /\ nput = MaxMsgs
    /\ \A w \in Workers : SumData(got[w]) > 0

(***************************************************************************)
(* C19. Sentinels before joins: endq_and_wait sends exactly one sentinel   *)
(* per handle it is given, exactly one when it is given a single handle,   *)
(* and it has sent all of them before it waits for the first worker.       *)
(***************************************************************************)
SentinelsBeforeJoinsState ==
    /\ nsent <= handles
    /\ EndsIn(q) + Cardinality(Terminated) = nsent + nextra
    /\ NoMoreSentinels =>
          /\ nsent = Len(stopArg.seq) + (IF stopArg.isWorker THEN 1 ELSE 0)
          /\ stopArg.isWorker => nsent = 1
    /\ joined # {} => NoMoreSentinels

SentinelsBeforeJoinsStep ==
    /\ nsent' # nsent => (mpc = "ending" /\ nsent' = nsent + 1 /\ joined = {}
                           /\ q' = Append(q, END_MSG))
    /\ joined' # joined => (nsent = handles /\ nsent' = nsent)

C19_SentinelsBeforeJoins ==
    [](SentinelsBeforeJoinsState) /\ [][SentinelsBeforeJoinsStep]_vars

C19_Witness ==
    /\ stopArg.isWorker
    /\ pool = MaxWorkers
    /\ nsent = 1
    /\ joined = {1}
    /\ mpc = "returned"

(***************************************************************************)
(* Vocabulary of the properties of a Q object.                             *)
(***************************************************************************)
Calls == 1..Len(calls)
\* the calls items(), with both flags at their defaults
PlainCalls == {i \in Calls : ~calls[i].cache /\ ~calls[i].sort}
CachedCalls == {i \in Calls : calls[i].cache}
SortedCalls == {i \in Calls : calls[i].sort}
\* the channel held only data messages when call i was made
NoSentinelBefore(i) == EndsIn(calls[i].before) = 0
\* nothing was sent between call i and the run of the iterator it returned
Undisturbed(i) == calls[i].seen = Append(calls[i].before, END_MSG)
Drained(i) ==
    /\ calls[i].state # "blocked"
    /\ calls[i].state = "pending" => HasEnd(ch)
    /\ (calls[i].state = "returned" /\ Undisturbed(i)) =>
          /\ calls[i].result = calls[i].before
          /\ calls[i].after = <<>>

(***************************************************************************)
(* C16 as stated. items() drains the channel: on a channel that holds n    *)
(* data messages and no sentinel, with nothing else sending or receiving,  *)
(* items() yields those n messages in the order sent, terminates, and      *)
(* leaves the channel empty.                                               *)
(***************************************************************************)
C16_ItemsDrainsEveryChannel ==
    \A i \in PlainCalls : NoSentinelBefore(i) => Drained(i)

(***************************************************************************)
(* C16 as amended. The same, provided the channel has room for the         *)
(* sentinel when items() is called: it is unbounded or below its capacity. *)
(***************************************************************************)
C16_ItemsDrainsWithRoom ==
    \A i \in PlainCalls :
        (NoSentinelBefore(i) /\ ~IsFull(calls[i].before)) => Drained(i)

C16_Witness ==
    \E i \in PlainCalls :
        /\ Len(calls[i].before) = MaxPuts
        /\ NoSentinelBefore(i)
        /\ calls[i].state = "returned"
        /\ Undisturbed(i)
        /\ calls[i].result = calls[i].before
        /\ ch = <<>>

(***************************************************************************)
(* C17. Cached items are repeatable: after a first call items(cache=True), *)
(* every later call items(cache=True) returns the messages the first call  *)
(* returned and leaves the channel as it found it, also when messages were *)
(* sent in between.                                                        *)
(***************************************************************************)
C17_CachedItemsRepeatable ==
    \A i, j \in CachedCalls :
        ((\A h \in CachedCalls : i <= h) /\ i < j) =>
            /\ calls[i].state = "returned"
            /\ calls[j].state = "returned"
            /\ calls[j].result = calls[i].result
            /\ calls[j].after = calls[j].before

C17_Witness ==
    \E i, j \in CachedCalls :
        /\ i < j
        /\ calls[i].result # <<>>
        /\ calls[j].before # <<>>
        /\ calls[j].before # calls[i].after
        /\ calls[j].result = calls[i].result
        /\ ch = calls[j].before

(***************************************************************************)
(* C18. items(sort=True) is sorted: whatever the cache flag and whatever   *)
(* calls of items came before, a call items(sort=True) returns the         *)
(* messages in non-decreasing Msg.order.                                   *)
(***************************************************************************)
C18_SortedItemsAreSorted ==
    \A i \in SortedCalls :
        calls[i].state = "returned" => NonDecreasing(calls[i].result)

(***************************************************************************)
(* C20. end() is send(Sentinel): in every state of the channel, a bounded  *)
(* channel at capacity included, end() has the effect and the outcome of   *)
(* put(END_MSG): it never blocks, and it appends one sentinel or raises    *)
(* the same error and leaves the channel unchanged.                        *)
(***************************************************************************)
C20_EndIsPutOfSentinel ==
    /\ opc # "blocked"
    /\ QEndEffect(ch) = QPutEffect(ch, END_MSG)

(***************************************************************************)
(* C15. map returns results in input order: whatever the function, the     *)
(* number of workers and the interleaving of the workers, map yields one   *)
(* value per zipped argument tuple, the i-th value being func applied to   *)
(* the i-th tuple; and it does yield them.                                 *)
(***************************************************************************)
Shorter(a, b) == IF Len(a) <= Len(b) THEN Len(a) ELSE Len(b)

ResultsInInputOrder ==
    /\ Len(results) = Shorter(xs, ys)
    /\ \A i \in 1..Len(results) : results[i] = Apply(func, <<xs[i], ys[i]>>)

IteratedCalls ==
    {i \in Calls : /\ calls[i].state = "returned"
                   /\ calls[i].cache => \A h \in CachedCalls : i <= h}
HasKindEnd(msg) == msg.kind = "END"
\* a message of the caller's of kind "END": it carries a payload
IsUserEnd(msg) == HasKindEnd(msg) /\ msg.data # 0
\* the place in seq of the first message of kind "END"
FirstEnd(seq) ==
    CHOOSE p \in Idx(seq) :
        HasKindEnd(seq[p]) /\ \A j \in 1..(p - 1) : ~HasKindEnd(seq[j])
EndsAtFirstEnd(i) ==
    LET seen == calls[i].seen
        p == FirstEnd(seen)
    IN  /\ \E j \in Idx(seen) : HasKindEnd(seen[j])
        /\ SameItems(calls[i].result, SubSeq(seen, 1, p - 1))
        /\ ~calls[i].sort => calls[i].result = SubSeq(seen, 1, p - 1)
        /\ calls[i].after = SubSeq(seen, p + 1, Len(seen))
PutIsAccepted ==
    (nqput' # nqput /\ ~IsFull(ch)) =>
        /\ Len(ch') = Len(ch) + 1
        /\ SubSeq(ch', 1, Len(ch)) = ch
        /\ Last(ch').data = nqput'

C21_SentinelAsDataEndsIteration ==
    /\ [](\A i \in IteratedCalls : EndsAtFirstEnd(i))
    /\ [][PutIsAccepted]_vars

C21_Witness ==
    \E i \in IteratedCalls :
        /\ Len(calls[i].seen) > 2
        /\ IsUserEnd(Head(calls[i].seen))
        /\ ~HasKindEnd(calls[i].seen[2])
        /\ calls[i].result = <<>>
        /\ calls[i].after = Tail(calls[i].seen)
        /\ ch = calls[i].after

(***************************************************************************)
(* C22. Input channel is empty after stop: when the producer sends all its *)
(* data messages before it calls stop with the handles of all N workers,   *)
(* and no other sentinel is sent, the first sentinel is dequeued only when *)
(* no data message is left in the channel or still to be sent, and when    *)
(* stop returns the channel holds neither a data message nor a sentinel.   *)
(***************************************************************************)
HoldsData(seq) == \E i \in Idx(seq) : seq[i].kind # "END"
SentinelDequeued ==
    \E w \in Workers : \E i \in Idx(got[w]) : got[w][i].kind = "END"
\* stop was called with every worker's handle, and nothing else sent a sentinel
StopOfAllWorkers == nextra = 0 /\ mpc # "put" /\ handles = pool

C22_InputEmptyAfterStop ==
    nextra = 0 =>
        /\ SentinelDequeued => (mpc # "put" /\ ~HoldsData(q))
        /\ (StopOfAllWorkers /\ StopReturned) => q = <<>>

C22_Witness ==
    /\ StopOfAllWorkers
    /\ mpc = "returned"
    /\ pool = MaxWorkers
    /\ nput = MaxMsgs
    /\ \A w \in Workers : Len(got[w]) >= 2
    /\ q = <<>>

(***************************************************************************)
(* C23. A stale key stalls the reorder buffer: once an item whose key is   *)
(* below expected (a key already passed, a repeated key, a key below       *)
(* start) is in `waiting`, sortiter yields nothing until its input ends,   *)
(* whatever arrives; every item left, those of key = expected included, is *)
(* yielded in the final drain.                                             *)
(***************************************************************************)
StalePending == \E i \in Idx(waiting) : key(waiting[i]) < expected
\* the key required when the i-th item arrived
ExpectedAt(i) ==
    start + Cardinality({j \in Idx(yieldLog) :
                            yieldLog[j].at < i /\ yieldLog[j].phase = "run"})
\* the arrivals that went to `waiting` with a key below the one required
StalePlaced == {i \in Idx(input) : key(input[i]) < ExpectedAt(i)}
YieldsAfterStaleInDrain ==
    \A i \in StalePlaced : \A j \in Idx(yieldLog) :
        yieldLog[j].at >= i => yieldLog[j].phase = "drain"
StalledUntilInputEnds ==
    (StalePending /\ spc \in {"next", "loop"}) =>
        /\ output' = output
        /\ spc' \in {"next", "loop"} => StalePending'

C23_StaleKeyStalls ==
    /\ [](YieldsAfterStaleInDrain)
    /\ [][StalledUntilInputEnds]_vars

\* 0 is yielded, the second 0 is stale, then 1 = expected arrives and waits
C23_Witness ==
    /\ spc = "done"
    /\ start = 0
    /\ KeysOf(input) = <<0, 0, 1>>
    /\ StalePlaced = {2}
    /\ ExpectedAt(3) = 1
    /\ KeysOf(output) = <<0, 0, 1>>
    /\ yieldLog[2].phase = "drain"
    /\ yieldLog[3].phase = "drain"

=============================================================================
